---- MODULE Spec2Model ----
(***************************************************************************)
(* Model of src/app.py: a command-line question-answering tool over the    *)
(* transcript of one YouTube video.                                        *)
(*                                                                         *)
(* Python strings are modelled as sequences of one-character strings, so   *)
(* that strip(), lower(), "in", split() and join() are computed character  *)
(* by character as the interpreter computes them.                          *)
(*                                                                         *)
(* Two specifications are given:                                           *)
(*   SpecExtract  applies extract_video_id to every input of a bounded set *)
(*   Spec         runs main(): normalise, fetch_transcript, translate,     *)
(*                build the index, then the question loop                  *)
(***************************************************************************)
EXTENDS Integers, Sequences, FiniteSets, TLC

VARIABLES
    x_in,            \* extract_video_id: the argument url_or_id
    x_out,           \* extract_video_id: the returned value
    x_done,          \* extract_video_id: TRUE once the call has returned
    pc,              \* main(): position of the single thread of control
    raw_input_val,   \* main(): the stripped first line read
    video_id,        \* main(): result of extract_video_id
    transcript,      \* fetch_transcript: local transcript / returned text
    lang,            \* fetch_transcript: local lang / returned tag
    text,            \* main(): result of translate_if_hindi
    chunks,          \* build_vector_store: docs stored in the index
    q_raw,           \* main(): the line read at the question prompt
    q,               \* main(): the stripped question of this iteration
    context,         \* main(): the retrieved chunks joined by format_docs
    answer,          \* main(): content of the last answer-generation call
    err,             \* the exception that ended the process, if any
    fetchLog,        \* history: every yt.fetch call with its outcome
    trace            \* history: every external call / input / print, in order

xvars == <<x_in, x_out, x_done>>
mvars == <<pc, raw_input_val, video_id, transcript, lang, text, chunks, q_raw,
           q, context, answer, err, fetchLog, trace>>
vars == <<x_in, x_out, x_done, pc, raw_input_val, video_id, transcript, lang,
          text, chunks, q_raw, q, context, answer, err, fetchLog, trace>>

----------------------------------------------------------------------------
(* Bounds of the model *)

MaxSegs == 2
MaxFrags == 2
MaxQuestions == 2

----------------------------------------------------------------------------
(* Python str primitives *)

\* Characters removed by str.strip() with no argument (those the inputs use)
Whitespace == {" ", "\t", "\n", "\r"}

UpperChars == <<"A","B","C","D","E","F","G","H","I","J","K","L","M",
                "N","O","P","Q","R","S","T","U","V","W","X","Y","Z">>
LowerChars == <<"a","b","c","d","e","f","g","h","i","j","k","l","m",
                "n","o","p","q","r","s","t","u","v","w","x","y","z">>
Digits == {"0","1","2","3","4","5","6","7","8","9"}
AsciiLetters == {UpperChars[i] : i \in 1..26} \cup {LowerChars[i] : i \in 1..26}

RECURSIVE str_lstrip(_, _)
str_lstrip(s, chars) ==
    IF s # <<>> /\ Head(s) \in chars THEN str_lstrip(Tail(s), chars) ELSE s

RECURSIVE str_rstrip(_, _)
str_rstrip(s, chars) ==
    IF s # <<>> /\ s[Len(s)] \in chars
    THEN str_rstrip(SubSeq(s, 1, Len(s) - 1), chars)
    ELSE s

\* variant: only the leading blanks are removed
str_strip_left_only(s) == str_lstrip(s, Whitespace)

str_strip(s) == str_rstrip(str_lstrip(s, Whitespace), Whitespace)

char_lower(c) ==
    IF \E i \in 1..26 : UpperChars[i] = c
    THEN LowerChars[CHOOSE i \in 1..26 : UpperChars[i] = c]
    ELSE c

str_lower(s) == [i \in 1..Len(s) |-> char_lower(s[i])]

\* sub in s
str_contains(s, sub) ==
    \E i \in 1..(Len(s) - Len(sub) + 1) : SubSeq(s, i, i + Len(sub) - 1) = sub

\* 1-based index of the first character of s at or after start that is in
\* chars, 0 when there is none
str_find(s, chars, start) ==
    LET idx == {i \in start..Len(s) : s[i] \in chars}
    IN  IF idx = {} THEN 0 ELSE CHOOSE i \in idx : \A j \in idx : i <= j

\* 1-based index of the last character of s that is in chars, 0 when none
str_rfind(s, chars) ==
    LET idx == {i \in 1..Len(s) : s[i] \in chars}
    IN  IF idx = {} THEN 0 ELSE CHOOSE i \in idx : \A j \in idx : j <= i

\* s.split(c)
RECURSIVE str_split(_, _)
str_split(s, c) ==
    LET i == str_find(s, {c}, 1)
    IN  IF i = 0 THEN <<s>>
        ELSE <<SubSeq(s, 1, i - 1)>> \o str_split(SubSeq(s, i + 1, Len(s)), c)

\* s.split(c, 1)
str_split1(s, c) ==
    LET i == str_find(s, {c}, 1)
    IN  IF i = 0 THEN <<s>>
        ELSE <<SubSeq(s, 1, i - 1), SubSeq(s, i + 1, Len(s))>>

\* sep.join(parts)
RECURSIVE str_join(_, _)
str_join(sep, parts) ==
    IF parts = <<>> THEN <<>>
    ELSE IF Len(parts) = 1 THEN parts[1]
    ELSE parts[1] \o sep \o str_join(sep, Tail(parts))

str_replace_char(s, from, to) == [i \in 1..Len(s) |-> IF s[i] = from THEN to ELSE s[i]]

----------------------------------------------------------------------------
(* urllib.parse as called by extract_video_id.  The inputs of the model    *)
(* contain no "[", "]" or "%", so the IPv6 bracket check of urlsplit never *)
(* raises and unquote() has nothing to decode.                             *)

SchemeChars == AsciiLetters \cup Digits \cup {"+", "-", "."}
RemovedByUrlsplit == {"\t", "\n", "\r"}
KeptByUrlsplit(c) == c \notin RemovedByUrlsplit

\* schemes of urllib.parse.uses_params that the inputs can carry
UsesParams == {<<>>, <<"h","t","t","p">>, <<"h","t","t","p","s">>, <<"f","t","p">>}

urlparse(url0) ==
    LET u1 == SelectSeq(str_lstrip(url0, Whitespace), KeptByUrlsplit)
        i == str_find(u1, {":"}, 1)
        hasScheme == /\ i > 1
                     /\ u1[1] \in AsciiLetters
                     /\ \A j \in 1..(i - 1) : u1[j] \in SchemeChars
        scheme == IF hasScheme THEN str_lower(SubSeq(u1, 1, i - 1)) ELSE <<>>
        u2 == IF hasScheme THEN SubSeq(u1, i + 1, Len(u1)) ELSE u1
        hasNetloc == Len(u2) >= 2 /\ SubSeq(u2, 1, 2) = <<"/", "/">>
        d == str_find(u2, {"/", "?", "#"}, 3)
        delim == IF d = 0 THEN Len(u2) + 1 ELSE d
        netloc == IF hasNetloc THEN SubSeq(u2, 3, delim - 1) ELSE <<>>
        u3 == IF hasNetloc THEN SubSeq(u2, delim, Len(u2)) ELSE u2
        f == str_split1(u3, "#")
        fragment == IF Len(f) = 2 THEN f[2] ELSE <<>>
        g == str_split1(f[1], "?")
        query == IF Len(g) = 2 THEN g[2] ELSE <<>>
        u4 == g[1]
        slash == str_rfind(u4, {"/"})
        semi == str_find(u4, {";"}, IF slash = 0 THEN 1 ELSE slash)
        hasParams == scheme \in UsesParams /\ semi > 0
        path == IF hasParams THEN SubSeq(u4, 1, semi - 1) ELSE u4
        params == IF hasParams THEN SubSeq(u4, semi + 1, Len(u4)) ELSE <<>>
    IN  [scheme |-> scheme, netloc |-> netloc, path |-> path,
         params |-> params, query |-> query, fragment |-> fragment]

\* parse_qs(query) as the ordered list of <<name, value>> pairs it groups:
\* fields without "=" or with a blank value are dropped, "+" means a space
RECURSIVE qs_pairs(_)
qs_pairs(fields) ==
    IF fields = <<>> THEN <<>>
    ELSE LET nv == str_split1(Head(fields), "=")
         IN  IF Len(nv) = 2 /\ nv[2] # <<>>
             THEN <<<<str_replace_char(nv[1], "+", " "),
                      str_replace_char(nv[2], "+", " ")>>>> \o qs_pairs(Tail(fields))
             ELSE qs_pairs(Tail(fields))

parse_qs(query) == qs_pairs(str_split(query, "&"))

\* qs.get(name, [None]): the values of name, <<>> standing for [None]
RECURSIVE qs_get(_, _)
qs_get(pairs, name) ==
    IF pairs = <<>> THEN <<>>
    ELSE IF Head(pairs)[1] = name THEN <<Head(pairs)[2]>> \o qs_get(Tail(pairs), name)
    ELSE qs_get(Tail(pairs), name)

NonEmpty(p) == p # <<>>

----------------------------------------------------------------------------
(* extract_video_id *)

YOUTUBE_COM == <<"y","o","u","t","u","b","e",".","c","o","m">>
YOUTU_BE == <<"y","o","u","t","u",".","b","e">>
WATCH_PATH == <<"/","w","a","t","c","h">>

\* line 27: parsed.path.lstrip("/")
short_link_id(path) == str_lstrip(path, {"/"})

extract_video_id(url_or_id) ==
    LET s == str_strip(url_or_id)
        parsed == urlparse(s)
        vals == qs_get(parse_qs(parsed.query), <<"v">>)
        parts == SelectSeq(str_split(parsed.path, "/"), NonEmpty)
    IN  IF str_contains(s, YOUTUBE_COM) \/ str_contains(s, YOUTU_BE)
        THEN IF str_contains(parsed.netloc, YOUTU_BE)
             THEN short_link_id(parsed.path)
             ELSE IF parsed.path = WATCH_PATH /\ vals # <<>>
             THEN vals[1]
             ELSE IF parts # <<>>
             THEN parts[Len(parts)]
             ELSE s
        ELSE s

----------------------------------------------------------------------------
(* Inputs of extract_video_id: optional blanks, scheme, host, up to        *)
(* MaxSegs path segments, an optional trailing slash, a query or fragment, *)
(* optional blanks.                                                        *)

SEG_ID1 == <<"Q","w">>
SEG_ID2 == <<"X","4">>
SEG_WATCH == <<"w","a","t","c","h">>
Segs == {SEG_ID1, SEG_ID2, SEG_WATCH}

HTTPS == <<"h","t","t","p","s",":","/","/">>
WWW_YOUTUBE_COM == <<"w","w","w",".">> \o YOUTUBE_COM

Leads == {<<>>, <<" ">>}
Trails == {<<>>, <<" ">>, <<"\t">>}
Schemes == {<<>>, HTTPS}
Hosts == {<<>>, YOUTU_BE, WWW_YOUTUBE_COM}
Tails == {<<>>, <<"?","v","=","X","4">>, <<"?","t","=","1","&","v","=","X","4">>,
          <<"#","t">>}

SegLists == UNION {[1..n -> Segs] : n \in 0..MaxSegs}

PathOf(segs, lead, trail) ==
    (IF lead THEN <<"/">> ELSE <<>>) \o str_join(<<"/">>, segs)
        \o (IF trail THEN <<"/">> ELSE <<>>)

Paths == {PathOf(sl, a, b) : sl \in SegLists, a \in BOOLEAN, b \in BOOLEAN}

ExtractInputs ==
    {l \o sc \o h \o p \o t \o r :
        l \in Leads, sc \in Schemes, h \in Hosts, p \in Paths, t \in Tails, r \in Trails}

\* the lines typed at the first prompt of main()
MainInputs ==
    {l \o u \o r : l \in Leads, r \in {<<>>, <<" ">>},
        u \in {SEG_ID1,
               HTTPS \o YOUTU_BE \o <<"/">> \o SEG_ID1,
               HTTPS \o WWW_YOUTUBE_COM \o WATCH_PATH \o <<"?","v","=","X","4">>}}

----------------------------------------------------------------------------
(* Specification of extract_video_id alone *)

NoStr == <<>>
NoError == [type |-> "none", args |-> <<>>]

MainIdle ==
    /\ pc = "start"
    /\ raw_input_val = NoStr /\ video_id = NoStr
    /\ transcript = NoStr /\ lang = "None" /\ text = NoStr
    /\ chunks = <<>> /\ q_raw = NoStr /\ q = NoStr /\ context = NoStr
    /\ answer = NoStr
    /\ err = NoError
    /\ fetchLog = <<>> /\ trace = <<>>

InitExtract ==
    /\ x_in \in ExtractInputs
    /\ x_out = NoStr
    /\ x_done = FALSE
    /\ MainIdle

ExtractCall ==
    /\ ~x_done
    /\ x_out' = extract_video_id(x_in)
    /\ x_done' = TRUE
    /\ UNCHANGED <<x_in, mvars>>

NextExtract == ExtractCall

SpecExtract == InitExtract /\ [][NextExtract]_vars

----------------------------------------------------------------------------
(* The external services.  Every call either raises or returns; what it    *)
(* returns is chosen from a small set.                                     *)

\* caption fragments the service may hold for each language
FragTexts(l) == IF l = "en" THEN {<<>>, <<"h","i">>} ELSE {<<>>, <<"n","a">>}

\* outcome of yt.fetch(video_id, languages=[l]).to_raw_data(): an exception,
\* or the "text" fields of up to MaxFrags fragments
FetchOutcomes(l) ==
    {[ok |-> FALSE, frags |-> <<>>]} \cup
    {[ok |-> TRUE, frags |-> f] : f \in UNION {[1..n -> FragTexts(l)] : n \in 0..MaxFrags}}

\* contents a chat-model call may return
Translations == {<<"o","k">>, <<>>}
Answers == {<<"y","e","s">>, <<"i","d","k">>}

\* lines typed at the question prompt
Questions ==
    {<<" "," ","E","x","i","t"," "," ">>, <<"q","u","i","t">>, <<"B","Y","E","\t">>,
     <<"e","x","i","t","s">>, <<" ","w","h","y">>}

\* any exception of a translation, embedding, index or chat call
UpstreamError == [type |-> "UpstreamServiceError", args |-> <<>>]

----------------------------------------------------------------------------
(* fetch_transcript *)

\* line 74: the message of the RuntimeError (its first character is U+274C)
NO_CAPTIONS_MSG ==
    <<"<U+274C>"," ","N","o"," ","E","n","g","l","i","s","h","/","H","i","n","d","i",
      " ","c","a","p","t","i","o","n","s"," ","a","v","a","i","l","a","b","l","e",
      " ","f","o","r"," ","t","h","i","s"," ","v","i","d","e","o",".">>

\* line 56 / line 67: " ".join(x["text"] for x in raw)
join_fragments(frags) == str_join(<<" ">>, frags)

\* variant: the tag is not set after a successful English fetch
english_attempt_untagged(o) ==
    IF o.ok THEN [transcript |-> join_fragments(o.frags), lang |-> "None"]
    ELSE [transcript |-> <<>>, lang |-> "None"]

\* lines 49-60: transcript and lang after the English attempt with outcome o
english_attempt(o) ==
    IF o.ok THEN [transcript |-> join_fragments(o.frags), lang |-> "en"]
    ELSE [transcript |-> <<>>, lang |-> "None"]

\* variant: Hindi is fetched whatever the English attempt gave
hindi_always(t) == TRUE

\* line 63: if not transcript
hindi_needed(t) == t = <<>>

\* variant: the tag is not updated after a successful Hindi fetch
hindi_attempt_keeps_tag(o, t, l) ==
    IF o.ok THEN [transcript |-> join_fragments(o.frags), lang |-> l]
    ELSE [transcript |-> t, lang |-> l]

\* lines 64-71: transcript and lang after the Hindi attempt with outcome o
hindi_attempt(o, t, l) ==
    IF o.ok THEN [transcript |-> join_fragments(o.frags), lang |-> "hi"]
    ELSE [transcript |-> t, lang |-> l]

\* variant: an empty transcript is returned instead of raising
no_captions_never(t) == FALSE

\* line 73: if not transcript
no_captions(t) == t = <<>>

\* variant: the exception also carries the video id
no_captions_error_with_id(vid) ==
    [type |-> "RuntimeError", args |-> <<NO_CAPTIONS_MSG, vid>>]

\* line 74: the exception raised, with its args
no_captions_error(vid) == [type |-> "RuntimeError", args |-> <<NO_CAPTIONS_MSG>>]

----------------------------------------------------------------------------
(* translate_if_hindi, build_vector_store, format_docs, the exit test *)

\* variant: every transcript is sent to translation
needs_translation_always(l) == TRUE

\* line 81: if lang != "hi": return text
needs_translation(l) == l = "hi"

CHUNK_SIZE == 1000
CHUNK_OVERLAP == 200
TOP_K == 4

\* line 103: splitter.create_documents([text]) for a text of at most
\* CHUNK_SIZE characters: one chunk, stripped of blanks, dropped when empty
create_documents(t) ==
    IF str_strip(t) = <<>> THEN <<>> ELSE <<str_strip(t)>>

\* line 113: "\n\n".join(d.page_content for d in docs)
format_docs(docs) == str_join(<<"\n", "\n">>, docs)

\* lines 130-132, 146: the k most similar chunks; every chunk when there are
\* at most k
retrieve(docs) == SubSeq(docs, 1, IF Len(docs) < TOP_K THEN Len(docs) ELSE TOP_K)

EXIT_TOKENS == {<<"e","x","i","t">>, <<"q","u","i","t">>, <<"b","y","e">>}

\* variant: the comparison is case-sensitive
is_exit_case_sensitive(s) == s \in EXIT_TOKENS

\* line 142: q.lower() in ["exit", "quit", "bye"]
is_exit(s) == str_lower(s) \in EXIT_TOKENS

\* variant: the failure is caught and the loop goes on
after_answer_failure_caught == "await"

\* line 160: no try/except encloses the call, the exception leaves main()
after_answer_failure == "crashed"

----------------------------------------------------------------------------
(* main() *)

CountIn(tr, e) == Cardinality({i \in 1..Len(tr) : tr[i] = e})
Count(e) == CountIn(trace, e)

Init ==
    /\ x_in = NoStr /\ x_out = NoStr /\ x_done = FALSE
    /\ MainIdle

\* lines 118-120
ReadVideo ==
    /\ pc = "start"
    /\ \E line \in MainInputs :
          /\ raw_input_val' = str_strip(line)
          /\ video_id' = extract_video_id(str_strip(line))
    /\ trace' = Append(trace, "input_video")
    /\ pc' = "try_en"
    /\ UNCHANGED <<xvars, transcript, lang, text, chunks, q, q_raw, context,
                   answer, err, fetchLog>>

\* lines 48-60
TryEnglish ==
    /\ pc = "try_en"
    /\ \E o \in FetchOutcomes("en") :
          /\ fetchLog' = Append(fetchLog, [lang |-> "en", ok |-> o.ok, frags |-> o.frags])
          /\ transcript' = english_attempt(o).transcript
          /\ lang' = english_attempt(o).lang
    /\ trace' = Append(trace, "fetch")
    /\ pc' = "try_hi"
    /\ UNCHANGED <<xvars, raw_input_val, video_id, text, chunks, q, q_raw,
                   context, answer, err>>

\* lines 63-71
TryHindi ==
    /\ pc = "try_hi"
    /\ \/ /\ hindi_needed(transcript)
          /\ \E o \in FetchOutcomes("hi") :
                /\ fetchLog' = Append(fetchLog, [lang |-> "hi", ok |-> o.ok, frags |-> o.frags])
                /\ transcript' = hindi_attempt(o, transcript, lang).transcript
                /\ lang' = hindi_attempt(o, transcript, lang).lang
          /\ trace' = Append(trace, "fetch")
       \/ /\ ~hindi_needed(transcript)
          /\ UNCHANGED <<fetchLog, transcript, lang, trace>>
    /\ pc' = "check"
    /\ UNCHANGED <<xvars, raw_input_val, video_id, text, chunks, q, q_raw,
                   context, answer, err>>

\* lines 73-76 and the return to line 123
FetchReturn ==
    /\ pc = "check"
    /\ IF no_captions(transcript)
       THEN /\ err' = no_captions_error(video_id)
            /\ pc' = "crashed"
       ELSE /\ err' = err
            /\ pc' = "translate"
    /\ UNCHANGED <<xvars, raw_input_val, video_id, transcript, lang, text, chunks,
                   q, q_raw, context, answer, fetchLog, trace>>

\* line 126, lines 80-97
Translate ==
    /\ pc = "translate"
    /\ \/ /\ ~needs_translation(lang)
          /\ text' = transcript
          /\ pc' = "split"
          /\ UNCHANGED <<trace, err>>
       \/ /\ needs_translation(lang)
          /\ trace' = Append(trace, "translate_call")
          /\ \/ \E out \in Translations :
                   /\ text' = out
                   /\ pc' = "split"
                   /\ err' = err
             \/ /\ err' = UpstreamError
                /\ pc' = "crashed"
                /\ text' = text
    /\ UNCHANGED <<xvars, raw_input_val, video_id, transcript, lang, chunks, q,
                   q_raw, context, answer, fetchLog>>

\* lines 102-104
Split ==
    /\ pc = "split"
    /\ Len(text) <= CHUNK_SIZE
    /\ chunks' = create_documents(text)
    /\ trace' = Append(trace, "split")
    /\ pc' = "embed"
    /\ UNCHANGED <<xvars, raw_input_val, video_id, transcript, lang, text, q,
                   q_raw, context, answer, err, fetchLog>>

\* lines 106-109 and 129-138: embedding and index build; FAISS cannot build
\* an index over no documents
BuildIndex ==
    /\ pc = "embed"
    /\ trace' = Append(trace, "embed")
    /\ \/ /\ chunks # <<>>
          /\ pc' = "await"
          /\ err' = err
       \/ /\ err' = UpstreamError
          /\ pc' = "crashed"
    /\ UNCHANGED <<xvars, raw_input_val, video_id, transcript, lang, text, chunks,
                   q, q_raw, context, answer, fetchLog>>

\* lines 141-144
ReadQuestion ==
    /\ pc = "await"
    /\ \E line \in Questions :
          /\ is_exit(str_strip(line)) \/ Count("read_question") < MaxQuestions
          /\ q_raw' = line
          /\ q' = str_strip(line)
          /\ pc' = IF is_exit(str_strip(line)) THEN "terminated" ELSE "retrieve"
    /\ trace' = Append(trace, "read_question")
    /\ UNCHANGED <<xvars, raw_input_val, video_id, transcript, lang, text, chunks,
                   context, answer, err, fetchLog>>

\* lines 146-147
Retrieve ==
    /\ pc = "retrieve"
    /\ trace' = Append(trace, "query")
    /\ \/ /\ context' = format_docs(retrieve(chunks))
          /\ pc' = "answer"
          /\ err' = err
       \/ /\ err' = UpstreamError
          /\ pc' = "crashed"
          /\ context' = context
    /\ UNCHANGED <<xvars, raw_input_val, video_id, transcript, lang, text, chunks,
                   q, q_raw, answer, fetchLog>>

\* lines 149-160
Answer ==
    /\ pc = "answer"
    /\ trace' = Append(trace, "answer_call")
    /\ \/ \E a \in Answers :
             /\ answer' = a
             /\ pc' = "print"
             /\ err' = err
       \/ /\ err' = UpstreamError
          /\ pc' = after_answer_failure
          /\ answer' = answer
    /\ UNCHANGED <<xvars, raw_input_val, video_id, transcript, lang, text, chunks,
                   q, q_raw, context, fetchLog>>

\* lines 161-162 and back to line 140
PrintAnswer ==
    /\ pc = "print"
    /\ trace' = Append(trace, "print_answer")
    /\ pc' = "await"
    /\ UNCHANGED <<xvars, raw_input_val, video_id, transcript, lang, text, chunks,
                   q, q_raw, context, answer, err, fetchLog>>

Next ==
    \/ ReadVideo
    \/ TryEnglish
    \/ TryHindi
    \/ FetchReturn
    \/ Translate
    \/ Split
    \/ BuildIndex
    \/ ReadQuestion
    \/ Retrieve
    \/ Answer
    \/ PrintAnswer

Spec == Init /\ [][Next]_vars

----------------------------------------------------------------------------
(* Properties *)

\* fetch_transcript has returned or raised
FetchDone == pc \notin {"start", "try_en", "try_hi", "check"}
\* fetch_transcript has returned a (transcript, lang) pair to main()
Returned == FetchDone /\ err.type # "RuntimeError"
\* a fetch attempt that yielded no text: it raised, or its joined text is ""
NoText(e) == ~e.ok \/ join_fragments(e.frags) = <<>>
PrimarySucceeded == Len(fetchLog) >= 1 /\ fetchLog[1].lang = "en" /\ fetchLog[1].ok
PrimaryYieldedText == PrimarySucceeded /\ ~NoText(fetchLog[1])
BothNoText == Len(fetchLog) = 2 /\ \A i \in 1..2 : NoText(fetchLog[i])

\* C1 as stated: whenever the English fetch succeeds, also with fragments
\* whose joined text is empty, fetch_transcript returns a result tagged "en"
C1_PrimarySuccessAlwaysTaggedEn ==
    (FetchDone /\ PrimarySucceeded) => (Returned /\ lang = "en")

\* C1 amended: whenever the English fetch succeeds with a non-empty joined
\* text, fetch_transcript returns a result tagged "en"
C1_PrimaryTextTaggedEn ==
    (FetchDone /\ PrimaryYieldedText) => (Returned /\ lang = "en")

C1_Witness ==
    pc = "translate" /\ PrimaryYieldedText /\ lang = "en"

\* C2 as stated: when both fetches yield no text, fetch_transcript fails with
\* the no-captions error and that error carries the video id passed in
C2_FailureCarriesVideoId ==
    (FetchDone /\ BothNoText) =>
        /\ pc = "crashed"
        /\ err.type = "RuntimeError"
        /\ \E i \in 1..Len(err.args) : str_contains(err.args[i], video_id)

\* C2 amended: when both fetches yield no text, fetch_transcript returns no
\* result and fails with the no-captions error, whose only argument is a
\* fixed message that does not depend on the video id
C2_FailureCarriesFixedMessage ==
    (FetchDone /\ BothNoText) =>
        /\ pc = "crashed"
        /\ err.type = "RuntimeError"
        /\ err.args = <<NO_CAPTIONS_MSG>>

C2_Witness ==
    /\ pc = "crashed" /\ err.type = "RuntimeError"
    /\ BothNoText /\ fetchLog[1].ok /\ ~fetchLog[2].ok

\* the line, trimmed and lowercased, is one of exit, quit, bye
IsExitLine(line) == str_lower(str_strip(line)) \in EXIT_TOKENS

\* C3: a line that after trimming and lowercasing is exit, quit or bye takes
\* the loop from AwaitingQuestion to Terminated in the step that reads it,
\* with no index query and no answer-generation call, and nothing is read or
\* done after Terminated
C3_ExitTerminatesLoop ==
    [][ /\ (pc = "await" /\ IsExitLine(q_raw')) =>
              (pc' = "terminated" /\ trace' = Append(trace, "read_question"))
        /\ (pc = "terminated") => UNCHANGED vars ]_vars

C3_Witness ==
    /\ pc = "terminated"
    /\ q_raw = <<" "," ","E","x","i","t"," "," ">>
    /\ trace[Len(trace)] = "read_question"

\* translate_if_hindi has returned to main()
TranslateReturned == pc = "split" \/ Count("split") > 0

\* C4: with an English transcript translate_if_hindi returns its text
\* unchanged and makes no translation call; a translation call is made only
\* for a transcript tagged Hindi
C4_EnglishIsIdentity ==
    /\ (TranslateReturned /\ lang = "en") =>
           (text = transcript /\ Count("translate_call") = 0)
    /\ Count("translate_call") > 0 => lang = "hi"

C4_Witness ==
    pc = "split" /\ lang = "en" /\ text = transcript /\ text # <<>>

\* the part of the path between its leading slash and the next slash
FirstPathSegment(path) ==
    LET p == IF path # <<>> /\ path[1] = "/" THEN Tail(path) ELSE path
        i == str_find(p, {"/"}, 1)
    IN  IF i = 0 THEN p ELSE SubSeq(p, 1, i - 1)

\* C5: for an input whose host is youtu.be, extract_video_id returns the
\* first path segment, also when more segments or a trailing slash follow
C5_ShortLinkFirstSegment ==
    (x_done /\ urlparse(str_strip(x_in)).netloc = YOUTU_BE) =>
        x_out = FirstPathSegment(urlparse(str_strip(x_in)).path)

NoHostMarker(s) == ~str_contains(s, YOUTUBE_COM) /\ ~str_contains(s, YOUTU_BE)

\* r is s without its leading and trailing blanks, and otherwise s
StrippedOf(r, s) ==
    \E a \in 0..Len(s) : \E b \in a..Len(s) :
        /\ r = SubSeq(s, a + 1, b)
        /\ \A k \in 1..a : s[k] \in Whitespace
        /\ \A k \in (b + 1)..Len(s) : s[k] \in Whitespace
        /\ r # <<>> => (r[1] \notin Whitespace /\ r[Len(r)] \notin Whitespace)

\* C6 as stated: an input without a YouTube host marker is returned
\* unchanged, character for character, leading and trailing blanks included
C6_BareInputUnchanged ==
    (x_done /\ NoHostMarker(x_in)) => x_out = x_in

\* C6 amended: an input without a YouTube host marker is returned with its
\* leading and trailing blanks removed and otherwise character for character,
\* slashes included
C6_BareInputStripped ==
    (x_done /\ NoHostMarker(x_in)) => StrippedOf(x_out, x_in)

C6_Witness ==
    /\ x_done /\ NoHostMarker(x_in)
    /\ x_in = <<" ", "/", "Q", "w", "/", "X", "4", " ">>
    /\ x_out = <<"/", "Q", "w", "/", "X", "4">>

\* C7: every result fetch_transcript returns has a non-empty text and the tag
\* of the attempt whose fragments make up that text
C7_ResultNonEmptyAndTagged ==
    Returned =>
        /\ transcript # <<>>
        /\ lang \in {"en", "hi"}
        /\ LET e == fetchLog[Len(fetchLog)]
           IN  e.lang = lang /\ e.ok /\ transcript = join_fragments(e.frags)

C7_Witness ==
    /\ pc = "translate" /\ lang = "hi"
    /\ Len(fetchLog) = 2 /\ fetchLog[1].ok /\ fetchLog[2].ok

\* C8: the Hindi fetch is issued only after the English fetch has completed
\* and only if that attempt yielded no text; at most two fetches, no retry
C8_SecondaryOnlyAfterEmptyPrimary ==
    /\ Len(fetchLog) <= 2
    /\ Count("fetch") = Len(fetchLog)
    /\ Len(fetchLog) >= 1 => fetchLog[1].lang = "en"
    /\ Len(fetchLog) = 2 => (fetchLog[2].lang = "hi" /\ NoText(fetchLog[1]))
    /\ (FetchDone /\ PrimaryYieldedText) => Len(fetchLog) = 1

C8_Witness ==
    /\ FetchDone /\ Len(fetchLog) = 2
    /\ ~fetchLog[1].ok /\ fetchLog[2].ok

\* the pipeline stage an event of the trace belongs to
StageOf(e) ==
    CASE e = "input_video" -> 1
      [] e = "fetch" -> 2
      [] e = "translate_call" -> 3
      [] e \in {"split", "embed"} -> 4
      [] OTHER -> 5

StageStarted(n) == \E i \in 1..Len(trace) : StageOf(trace[i]) >= n

\* C9: when neither language yields captions the process ends with the
\* no-captions failure before any translation, chunking, embedding, index or
\* question step; each stage starts only after the previous one succeeded
C9_StagesInOrder ==
    /\ (FetchDone /\ \A i \in 1..Len(fetchLog) : NoText(fetchLog[i])) =>
           (pc = "crashed" /\ err.type = "RuntimeError" /\ ~StageStarted(3))
    /\ \A i, j \in 1..Len(trace) : i < j => StageOf(trace[i]) <= StageOf(trace[j])
    /\ StageStarted(2) => Count("input_video") = 1
    /\ StageStarted(3) => (Returned /\ transcript # <<>>)
    /\ StageStarted(4) =>
           /\ lang = "hi" => (Count("translate_call") = 1 /\ text \in Translations)
           /\ lang # "hi" => text = transcript
    /\ StageStarted(5) =>
           (Count("split") = 1 /\ Count("embed") = 1 /\ chunks # <<>>)
    /\ err.type # "none" => pc = "crashed"

C9_Witness ==
    /\ pc = "crashed" /\ err.type = "RuntimeError"
    /\ trace = <<"input_video", "fetch", "fetch">>

\* C10: a failure of the answer-generation call is not caught: the loop does
\* not return to AwaitingQuestion, no answer is printed for the question, no
\* further question is read and the process ends with the failure
C10_AnswerFailureIsFatal ==
    [][ /\ (pc = "answer" /\ err'.type # "none") =>
              /\ pc' = "crashed"
              /\ CountIn(trace', "print_answer") = Count("print_answer")
              /\ CountIn(trace', "read_question") = Count("read_question")
        /\ (pc = "crashed") => UNCHANGED vars ]_vars

C10_Witness ==
    /\ pc = "crashed" /\ err.type = "UpstreamServiceError"
    /\ trace[Len(trace)] = "answer_call"
    /\ Count("print_answer") < Count("answer_call")

====
